---------------------------- MODULE Spec2Model ----------------------------
(***************************************************************************)
(* Model of pipeline/run_pipeline.py: a batch script that reads user      *)
(* events, scores every (user, object) pair, ranks the pairs per user,     *)
(* keeps the TOP_K best, joins product metadata, writes the result to the  *)
(* recommendations table with DataFrame.to_sql(if_exists="replace") and    *)
(* mails a summary.                                                        *)
(*                                                                         *)
(* Text values (object_id) are sequences of one-character strings so that  *)
(* parsing (pd.to_numeric) and the lexicographic order the groupby sorts   *)
(* its keys by are computed, not assumed.                                  *)
(***************************************************************************)
EXTENDS Integers, Sequences, FiniteSets, TLC

(***************************************************************************)
(* Program constants.                                                      *)
(***************************************************************************)
MODEL_VERSION == "v1_weighted_events"

TOP_K == 10

(***************************************************************************)
(* Bounds of the model.                                                    *)
(***************************************************************************)
\* longest free-form part of the user_events table
MaxEvents == 2

\* number of distinct products of one user in the bulk part of user_events
MaxBulk == 11

\* number of times the scheduler runs the script
MaxRuns == 2

(***************************************************************************)
(* Text.                                                                   *)
(***************************************************************************)
\* code point of a character, the order Python compares str by
Code(c) ==
  CASE c = "." -> 46
    [] c = "0" -> 48 [] c = "1" -> 49 [] c = "2" -> 50 [] c = "3" -> 51
    [] c = "4" -> 52 [] c = "5" -> 53 [] c = "6" -> 54 [] c = "7" -> 55
    [] c = "8" -> 56 [] c = "9" -> 57
    [] c = "X" -> 88
    [] c = "f" -> 102 [] c = "i" -> 105 [] c = "n" -> 110

IsDigit(c) == Code(c) >= 48 /\ Code(c) <= 57

\* s < t for str: the first differing character decides, a proper prefix is smaller
StrLess(s, t) ==
  \E i \in 1..(Len(t)) :
     /\ \A j \in 1..(i - 1) : j <= Len(s) /\ s[j] = t[j]
     /\ \/ i = Len(s) + 1
        \/ i <= Len(s) /\ Code(s[i]) < Code(t[i])

AllDigits(s) == \A i \in 1..Len(s) : IsDigit(s[i])

RECURSIVE DigitsValue(_)
DigitsValue(s) ==
  IF s = << >> THEN 0
  ELSE 10 * DigitsValue(SubSeq(s, 1, Len(s) - 1)) + (Code(s[Len(s)]) - 48)

DotAt(s) == { i \in 1..Len(s) : s[i] = "." }

NaN == [kind |-> "nan", int |-> 0, frac |-> << >>]

\* pd.to_numeric(x, errors="coerce") on one str: a decimal integer, a decimal
\* with a point, "inf", and NaN for everything that does not parse
ToNumeric(s) ==
  IF s = <<"i", "n", "f">> THEN [kind |-> "inf", int |-> 0, frac |-> << >>]
  ELSE IF s # << >> /\ AllDigits(s)
    THEN [kind |-> "num", int |-> DigitsValue(s), frac |-> << >>]
  ELSE IF Cardinality(DotAt(s)) = 1 /\ Len(s) >= 2
    THEN LET d  == CHOOSE i \in DotAt(s) : TRUE
             ip == SubSeq(s, 1, d - 1)
             fp == SubSeq(s, d + 1, Len(s))
         IN  IF AllDigits(ip) /\ AllDigits(fp)
               THEN [kind |-> "num", int |-> DigitsValue(ip), frac |-> fp]
               ELSE NaN
  ELSE NaN

IsNa(v) == v.kind = "nan"

IsFinite(v) == v.kind = "num"

\* float -> int of astype(int): the fraction is cut off
AsInt(v) == v.int

(***************************************************************************)
(* STEP 2: feature engineering.                                            *)
(***************************************************************************)
EVENT_WEIGHTS(t) ==
  CASE t = "view_product" -> 1
    [] t = "add_to_cart" -> 3
    [] t = "checkout" -> 5
    [] t = "remove_from_cart" -> -2
    [] OTHER -> 0

\* events_df["weight"] = events_df["event_type"].map(EVENT_WEIGHTS).fillna(0)
WithWeight(df) ==
  [i \in 1..Len(df) |->
     [user_id |-> df[i].user_id, event_type |-> df[i].event_type,
      object_id |-> df[i].object_id, weight |-> EVENT_WEIGHTS(df[i].event_type)]]

RECURSIVE SumWeight(_, _, _)
SumWeight(df, k, n) ==
  IF n = 0 THEN 0
  ELSE SumWeight(df, k, n - 1)
       + (IF <<df[n].user_id, df[n].object_id>> = k THEN df[n].weight ELSE 0)

\* the keys in descending order, as a groupby followed by a descending sort
KeyLessDescending(a, b) == a[1] < b[1] \/ (a[1] = b[1] /\ StrLess(b[2], a[2]))

\* order of the group keys (user_id, object_id) in the groupby result
KeyLess(a, b) == a[1] < b[1] \/ (a[1] = b[1] /\ StrLess(a[2], b[2]))

\* the sorted sequence ks with the key k put at its place
Placed(ks, k) ==
  LET before == Cardinality({ i \in 1..Len(ks) : KeyLess(ks[i], k) })
  IN  SubSeq(ks, 1, before) \o <<k>> \o SubSeq(ks, before + 1, Len(ks))

\* the keys of the set S in ascending order
RECURSIVE SortedKeys(_)
SortedKeys(S) ==
  IF S = {} THEN << >>
  ELSE LET k == CHOOSE x \in S : TRUE
       IN  Placed(SortedKeys(S \ {k}), k)

GroupKeys(df) == { <<df[i].user_id, df[i].object_id>> : i \in 1..Len(df) }

RECURSIVE KeysAsMet(_, _)
KeysAsMet(df, n) ==
  IF n = 0 THEN << >>
  ELSE LET ks == KeysAsMet(df, n - 1)
           k  == <<df[n].user_id, df[n].object_id>>
       IN  IF \E i \in 1..Len(ks) : ks[i] = k THEN ks ELSE Append(ks, k)

\* the groupby with sort=False: the keys stand in the order the input meets them
GroupBySumUnsorted(df) ==
  LET ks == KeysAsMet(df, Len(df))
  IN  [i \in 1..Len(ks) |->
         [user_id |-> ks[i][1], product_id |-> ks[i][2],
          weight |-> SumWeight(df, ks[i], Len(df))]]

\* events_df.groupby(["user_id", "object_id"])["weight"].sum().reset_index()
\*   .rename(columns={"object_id": "product_id"}): one row per key, keys sorted
GroupBySum(df) ==
  LET ks == SortedKeys(GroupKeys(df))
  IN  [i \in 1..Len(ks) |->
         [user_id |-> ks[i][1], product_id |-> ks[i][2],
          weight |-> SumWeight(df, ks[i], Len(df))]]

(***************************************************************************)
(* Data type alignment of product_id.                                      *)
(***************************************************************************)
\* features_df["product_id"] = pd.to_numeric(features_df["product_id"], errors="coerce")
CoerceProductId(df) ==
  [i \in 1..Len(df) |->
     [user_id |-> df[i].user_id, product_id |-> ToNumeric(df[i].product_id),
      weight |-> df[i].weight]]

NotNaRow(r) == ~IsNa(r.product_id)

\* features_df["product_id"].isna().sum()
InvalidCount(df) == Cardinality({ i \in 1..Len(df) : IsNa(df[i].product_id) })

\* features_df.dropna(subset=["product_id"])
DropNa(df) == SelectSeq(df, NotNaRow)

\* astype(int) raises on a column that holds a non-finite value
CastRaises(df) == \E i \in 1..Len(df) : ~IsFinite(df[i].product_id)

\* features_df["product_id"].astype(int)
AsTypeInt(df) ==
  [i \in 1..Len(df) |->
     [user_id |-> df[i].user_id, product_id |-> AsInt(df[i].product_id),
      weight |-> df[i].weight]]

(***************************************************************************)
(* STEP 3: ranking model.                                                  *)
(***************************************************************************)
\* rank(method="min"): rows of equal weight share the smallest of their ranks
RankMin(df, i) ==
  1 + Cardinality({ j \in 1..Len(df) :
        df[j].user_id = df[i].user_id /\ df[j].weight > df[i].weight })

\* groupby("user_id")["weight"].rank(method="first", ascending=False) of row i:
\* rows of the same user with a larger weight come before it, and among equal
\* weights the rows that stand earlier in the frame
RankFirst(df, i) ==
  1 + Cardinality({ j \in 1..Len(df) :
        /\ df[j].user_id = df[i].user_id
        /\ \/ df[j].weight > df[i].weight
           \/ df[j].weight = df[i].weight /\ j < i })

WithRank(df) ==
  [i \in 1..Len(df) |->
     [user_id |-> df[i].user_id, product_id |-> df[i].product_id,
      weight |-> df[i].weight, rank |-> RankFirst(df, i)]]

InTopK(r) == r.rank <= TOP_K

\* ranked_df = features_df[features_df["rank"] <= TOP_K]
TopRows(df) == SelectSeq(df, InTopK)

\* STEP 2, the alignment and STEP 3 in one: the ranked_df of a user_events table
\* whose product_id column casts to int
RankedOf(ev) ==
  TopRows(WithRank(AsTypeInt(DropNa(CoerceProductId(GroupBySum(WithWeight(ev)))))))

(***************************************************************************)
(* STEP 4: enrichment with product data.                                   *)
(***************************************************************************)
Null == "NULL"

\* the products table: id is its key
products_df ==
  << [id |-> 5, name |-> "mug", category |-> "kitchen", price |-> "4.50"],
     [id |-> 7, name |-> "lamp", category |-> "home", price |-> "19.99"] >>

Stamp(r, p, now) ==
  [user_id |-> r.user_id, product_id |-> r.product_id, weight |-> r.weight,
   rank |-> r.rank, name |-> p.name, category |-> p.category, price |-> p.price,
   model_version |-> MODEL_VERSION, created_at |-> now]

NoProduct == [id |-> 0, name |-> Null, category |-> Null, price |-> Null]

RECURSIVE MatchesOf(_, _, _)
MatchesOf(pid, right, n) ==
  IF n = 0 THEN << >>
  ELSE MatchesOf(pid, right, n - 1)
       \o (IF right[n].id = pid THEN <<right[n]>> ELSE << >>)

\* ranked_df.merge(products_df, left_on="product_id", right_on="id", how="left"),
\* then the model_version and created_at columns and the column selection
RECURSIVE Enriched(_, _, _, _)
Enriched(left, right, now, n) ==
  IF n = 0 THEN << >>
  ELSE LET m == MatchesOf(left[n].product_id, right, Len(right))
       IN  Enriched(left, right, now, n - 1)
           \o (IF m = << >> THEN <<Stamp(left[n], NoProduct, now)>>
               ELSE [k \in 1..Len(m) |-> Stamp(left[n], m[k], now)])

(***************************************************************************)
(* STEP 5: the recommendations table and DataFrame.to_sql.                 *)
(***************************************************************************)
\* to_sql(if_exists="append"): the rows are added to the table as it is
if_exists_append == "append"

\* the if_exists argument of the to_sql call
if_exists == "replace"

NoTable == [exists |-> FALSE, rows |-> << >>]

EmptyTable == [exists |-> TRUE, rows |-> << >>]

\* to_sql(if_exists="replace") on an existing table: the table is dropped
Dropped(t) == NoTable

\* the table is created anew from the frame's columns
Created(t) == EmptyTable

\* the frame's rows are inserted
Inserted(t, df) == [exists |-> TRUE, rows |-> t.rows \o df]

(***************************************************************************)
(* The inputs: the user_events table, the recommendations table as earlier *)
(* runs (of this or another model version) left it.                        *)
(***************************************************************************)
Digit == <<"0", "1", "2", "3", "4", "5", "6", "7", "8", "9">>

RECURSIVE Text(_)
Text(n) == IF n < 10 THEN <<Digit[n + 1]>> ELSE Text(n \div 10) \o <<Digit[(n % 10) + 1]>>

Event(u, t, o) == [user_id |-> u, event_type |-> t, object_id |-> o]

EventPool ==
  { Event(1, "view_product", <<"5">>),
    Event(1, "view_product", <<"1", "0">>),
    Event(1, "checkout", <<"0", "5">>),
    Event(1, "add_to_cart", <<"5", ".", "5">>),
    Event(1, "remove_from_cart", <<"7">>),
    Event(1, "wishlist", <<"X">>),
    Event(2, "view_product", <<"i", "n", "f">>),
    Event(2, "add_to_cart", <<"5">>),
    Event(2, "checkout", <<"7">>) }

FreeTables == UNION { [1..n -> EventPool] : n \in 0..MaxEvents }

\* k events of user 1 on k distinct products 95, 96, ...
Bulk(k) ==
  [i \in 1..k |->
     Event(1, IF i % 2 = 1 THEN "view_product" ELSE "add_to_cart", Text(94 + i))]

\* the free-form tables, and the bulk followed by at most one more event
InputTables ==
  FreeTables \cup { Bulk(MaxBulk) \o t : t \in UNION { [1..n -> EventPool] : n \in 0..1 } }

OldRow(u, p, v) ==
  [user_id |-> u, product_id |-> p, weight |-> 1, rank |-> 1, name |-> Null,
   category |-> Null, price |-> Null, model_version |-> v, created_at |-> 0]

InitStores ==
  { NoTable,
    [exists |-> TRUE, rows |-> <<OldRow(1, 99, MODEL_VERSION)>>],
    [exists |-> TRUE,
     rows |-> <<OldRow(1, 99, MODEL_VERSION), OldRow(2, 7, "v0_popularity")>>] }

(***************************************************************************)
(* State.                                                                  *)
(***************************************************************************)
VARIABLES
  events,         \* the user_events rows the query of STEP 1 selects
  mail,           \* MAIL_USERNAME and MAIL_PASSWORD are both set
  store,          \* the recommendations table as committed: what a reader sees
  work,           \* the recommendations table as the writing connection sees it
  pre,            \* the recommendations table when to_sql was called
  atomic,         \* to_sql runs its DROP, CREATE and INSERT in one transaction
  published,      \* the number of to_sql calls that returned
  pc,             \* the section of the script that runs next
  failedAt,       \* the section that raised, "none" while none did
  run,            \* the number of this run
  clock,          \* the UTC clock
  events_df, features_df, invalid_count, ranked_df, final_df

vars ==
  <<events, mail, store, work, pre, atomic, published, pc, failedAt, run, clock,
    events_df, features_df, invalid_count, ranked_df, final_df>>

frames == <<events_df, features_df, invalid_count, ranked_df, final_df>>

env == <<events, mail, run>>

db == <<store, work, pre, atomic, published>>

Init ==
  /\ events \in InputTables
  /\ mail \in BOOLEAN
  /\ store \in InitStores
  /\ work = store
  /\ pre = store
  /\ atomic = FALSE
  /\ published = 0
  /\ pc = "fetch"
  /\ failedAt = "none"
  /\ run = 1
  /\ clock = 1
  /\ events_df = << >>
  /\ features_df = << >>
  /\ invalid_count = 0
  /\ ranked_df = << >>
  /\ final_df = << >>

(***************************************************************************)
(* The script, section by section.                                         *)
(***************************************************************************)
\* STEP 1: events_df = pd.read_sql(...)
FetchData ==
  /\ pc = "fetch"
  /\ events_df' = events
  /\ pc' = "features"
  /\ UNCHANGED <<env, db, failedAt, clock, features_df, invalid_count, ranked_df, final_df>>

\* STEP 2: the weight column, then the sum per (user_id, object_id)
FeatureEngineering ==
  /\ pc = "features"
  /\ events_df' = WithWeight(events_df)
  /\ features_df' = GroupBySum(WithWeight(events_df))
  /\ pc' = "align"
  /\ UNCHANGED <<env, db, failedAt, clock, invalid_count, ranked_df, final_df>>

\* data type alignment: to_numeric, the count of NaN, dropna, astype(int)
AlignTypes ==
  /\ pc = "align"
  /\ LET numeric == CoerceProductId(features_df)
         clean   == DropNa(numeric)
     IN  /\ invalid_count' = InvalidCount(numeric)
         /\ ~CastRaises(clean)
         /\ features_df' = AsTypeInt(clean)
  /\ pc' = "rank"
  /\ UNCHANGED <<env, db, failedAt, clock, events_df, ranked_df, final_df>>

\* astype(int) raises: the script ends with the exception
AlignTypesRaises ==
  /\ pc = "align"
  /\ LET numeric == CoerceProductId(features_df)
         clean   == DropNa(numeric)
     IN  /\ invalid_count' = InvalidCount(numeric)
         /\ CastRaises(clean)
         /\ features_df' = clean
  /\ pc' = "failed"
  /\ failedAt' = "align"
  /\ UNCHANGED <<env, db, clock, events_df, ranked_df, final_df>>

\* STEP 3: the rank column, then the rows of rank <= TOP_K
RankProducts ==
  /\ pc = "rank"
  /\ features_df' = WithRank(features_df)
  /\ ranked_df' = TopRows(WithRank(features_df))
  /\ pc' = "enrich"
  /\ UNCHANGED <<env, db, failedAt, clock, events_df, invalid_count, final_df>>

\* STEP 4: the left join with products_df; created_at is read off the clock once
Enrich ==
  /\ pc = "enrich"
  /\ final_df' = Enriched(ranked_df, products_df, clock, Len(ranked_df))
  /\ clock' = clock + 1
  /\ pc' = "save"
  /\ UNCHANGED <<env, db, failedAt, events_df, features_df, invalid_count, ranked_df>>

\* STEP 5: final_df.to_sql("recommendations", reco_engine, if_exists="replace").
\* Whether the statements of to_sql share one transaction is the library's
\* choice (the script opens none): both are modelled.
ToSqlBegin ==
  /\ pc = "save"
  /\ atomic' \in (IF run = 1 THEN BOOLEAN ELSE {atomic})
  /\ pre' = store
  /\ work' = store
  /\ pc' = IF ~store.exists THEN "sql_create"
           ELSE IF if_exists = "replace" THEN "sql_drop"
           ELSE "sql_insert"
  /\ UNCHANGED <<env, store, published, failedAt, clock, frames>>

\* DROP TABLE recommendations
ToSqlDrop ==
  /\ pc = "sql_drop"
  /\ work' = Dropped(work)
  /\ store' = IF atomic THEN store ELSE Dropped(work)
  /\ pc' = "sql_create"
  /\ UNCHANGED <<env, pre, atomic, published, failedAt, clock, frames>>

\* CREATE TABLE recommendations
ToSqlCreate ==
  /\ pc = "sql_create"
  /\ work' = Created(work)
  /\ store' = IF atomic THEN store ELSE Created(work)
  /\ pc' = "sql_insert"
  /\ UNCHANGED <<env, pre, atomic, published, failedAt, clock, frames>>

\* INSERT of all rows, inside the open transaction
ToSqlInsert ==
  /\ pc = "sql_insert"
  /\ work' = Inserted(work, final_df)
  /\ pc' = "sql_commit"
  /\ UNCHANGED <<env, store, pre, atomic, published, failedAt, clock, frames>>

\* COMMIT
ToSqlCommit ==
  /\ pc = "sql_commit"
  /\ store' = work
  /\ published' = published + 1
  /\ pc' = "email"
  /\ UNCHANGED <<env, work, pre, atomic, failedAt, clock, frames>>

\* a statement of to_sql raises (connection lost, constraint, disk): the open
\* transaction is rolled back and the script ends with the exception
ToSqlRaises ==
  /\ pc \in {"sql_drop", "sql_create", "sql_insert", "sql_commit"}
  /\ work' = store
  /\ pc' = "failed"
  /\ failedAt' = "save"
  /\ UNCHANGED <<env, store, pre, atomic, published, clock, frames>>

\* STEP 6: credentials set, login and send_message succeed
EmailSent ==
  /\ pc = "email"
  /\ mail
  /\ pc' = "end"
  /\ UNCHANGED <<env, db, failedAt, clock, frames>>

\* STEP 6: SMTP_SSL, login or send_message raises; nothing catches it
EmailRaises ==
  /\ pc = "email"
  /\ mail
  /\ pc' = "failed"
  /\ failedAt' = "email"
  /\ UNCHANGED <<env, db, clock, frames>>

\* STEP 6: credentials not set
EmailSkipped ==
  /\ pc = "email"
  /\ ~mail
  /\ pc' = "end"
  /\ UNCHANGED <<env, db, failedAt, clock, frames>>

\* PIPELINE END
PipelineEnd ==
  /\ pc = "end"
  /\ pc' = "done"
  /\ UNCHANGED <<env, db, failedAt, clock, frames>>

\* the scheduler starts the script again, on the same input tables
Rerun ==
  /\ pc \in {"done", "failed"}
  /\ run < MaxRuns
  /\ run' = run + 1
  /\ pc' = "fetch"
  /\ failedAt' = "none"
  /\ events_df' = << >>
  /\ features_df' = << >>
  /\ invalid_count' = 0
  /\ ranked_df' = << >>
  /\ final_df' = << >>
  /\ UNCHANGED <<events, mail, db, clock>>

Next ==
  \/ FetchData
  \/ FeatureEngineering
  \/ AlignTypes
  \/ AlignTypesRaises
  \/ RankProducts
  \/ Enrich
  \/ ToSqlBegin
  \/ ToSqlDrop
  \/ ToSqlCreate
  \/ ToSqlInsert
  \/ ToSqlCommit
  \/ ToSqlRaises
  \/ EmailSent
  \/ EmailRaises
  \/ EmailSkipped
  \/ PipelineEnd
  \/ Rerun

Spec == Init /\ [][Next]_vars

(***************************************************************************)
(* Properties.                                                             *)
(***************************************************************************)
VersionRow(r) == r.model_version = MODEL_VERSION

OtherVersionRow(r) == r.model_version # MODEL_VERSION

\* the rows of a table that carry the run's model version, and the others
VersionRows(t) == SelectSeq(t.rows, VersionRow)

OtherRows(t) == SelectSeq(t.rows, OtherVersionRow)

Publishing == pc \in {"sql_drop", "sql_create", "sql_insert", "sql_commit"}

\* C1: once to_sql has returned for the second time or later on the same
\* inputs, the recommendations table holds exactly the rows of the last run,
\* which are the rows one run computes from the inputs: nothing of an earlier
\* run is left and nothing is there twice.
C1_IdempotentRerun ==
  (published >= 2 /\ pc \in {"email", "end", "done"}) =>
     /\ store.exists
     /\ VersionRows(store) = final_df
     /\ store.rows = Enriched(RankedOf(events), products_df, clock - 1,
                              Len(RankedOf(events)))

C1_Witness ==
  /\ published >= 2
  /\ pc = "done"
  /\ VersionRows(pre) # << >>
  /\ Len(final_df) >= 2
  /\ store.rows = final_df

\* C2: when to_sql raises, the recommendations table holds the rows it held
\* when to_sql was called.
C2_AllOrNothing == (pc = "failed" /\ failedAt = "save") => store.rows = pre.rows

\* C3: no step of a run changes the rows of another model version.
C3_OtherVersionsUntouched == [][OtherRows(store') = OtherRows(store)]_vars

\* C4: while to_sql runs on a table that held rows of the run's version, a
\* reader of the table sees all the old rows of that version or all the new
\* ones, never none of them and never both.
C4_ReaderAtomicity ==
  (Publishing /\ VersionRows(pre) # << >>) =>
     \/ VersionRows(store) = VersionRows(pre)
     \/ VersionRows(store) = final_df /\ final_df # << >>

\* C5: with mail credentials set, a failure of the mail step does not end the
\* run: the script never stops in STEP 6.
C5_NotificationNeverFails == ~(pc = "failed" /\ failedAt = "email")

IntegerText(s) == s # << >> /\ AllDigits(s)

\* the events of user u whose object_id casts to item p
EventsOfPair(u, p) ==
  { k \in 1..Len(events) :
      /\ events[k].user_id = u
      /\ IsFinite(ToNumeric(events[k].object_id))
      /\ AsInt(ToNumeric(events[k].object_id)) = p }

RECURSIVE SumOver(_)
SumOver(K) ==
  IF K = {} THEN 0
  ELSE LET k == CHOOSE x \in K : TRUE
       IN  EVENT_WEIGHTS(events[k].event_type) + SumOver(K \ {k})

\* C6: on events whose object_id are all integer texts, the aligned features
\* hold one row per (user_id, item) and its weight is the sum of the weights
\* of all events of that pair.
C6_OneRowPerPair ==
  (pc = "rank" /\ \A k \in 1..Len(events) : IntegerText(events[k].object_id)) =>
     /\ \A i, j \in 1..Len(features_df) :
           (/\ features_df[i].user_id = features_df[j].user_id
            /\ features_df[i].product_id = features_df[j].product_id) => i = j
     /\ \A i \in 1..Len(features_df) :
           features_df[i].weight =
              SumOver(EventsOfPair(features_df[i].user_id, features_df[i].product_id))

\* the first position in the input at which user u meets item p
FirstSeen(u, p) ==
  CHOOSE k \in EventsOfPair(u, p) : \A m \in EventsOfPair(u, p) : k <= m

Tied(df, i, j) ==
  /\ i # j
  /\ df[i].user_id = df[j].user_id
  /\ df[i].weight = df[j].weight

\* C7, as claimed: of two items of a user with equal score, the one met first
\* in the input gets the smaller rank.
C7_FirstSeenFirstRanked ==
  pc = "enrich" =>
     \A i, j \in 1..Len(features_df) :
        (/\ Tied(features_df, i, j)
         /\ features_df[i].product_id # features_df[j].product_id
         /\ FirstSeen(features_df[i].user_id, features_df[i].product_id)
              < FirstSeen(features_df[j].user_id, features_df[j].product_id))
        => features_df[i].rank < features_df[j].rank

ParsedRow(r) == ~IsNa(ToNumeric(r.product_id))

\* the rows of the groupby that survive dropna, with object_id still as text:
\* row i of it becomes row i of the aligned features_df
TextRows == SelectSeq(GroupBySum(WithWeight(events)), ParsedRow)

\* C7, amended: of two rows of a user with equal score, the one whose object_id
\* text is the smaller str gets the smaller rank, whatever the input order.
C7_SmallerTextFirstRanked ==
  pc = "enrich" =>
     LET text == TextRows
     IN  /\ Len(text) = Len(features_df)
         /\ \A i, j \in 1..Len(features_df) :
               (/\ Tied(features_df, i, j)
                /\ StrLess(text[i].product_id, text[j].product_id))
               => features_df[i].rank < features_df[j].rank

\* a tie in which the smaller text is the larger item and was met later
C7_Witness ==
  /\ pc = "enrich"
  /\ Len(events) <= MaxEvents
  /\ Len(TextRows) = Len(features_df)
  /\ \E i, j \in 1..Len(features_df) :
        /\ Tied(features_df, i, j)
        /\ StrLess(TextRows[i].product_id, TextRows[j].product_id)
        /\ features_df[i].product_id > features_df[j].product_id
        /\ FirstSeen(features_df[j].user_id, features_df[j].product_id)
             < FirstSeen(features_df[i].user_id, features_df[i].product_id)
        /\ features_df[i].rank < features_df[j].rank

Permuted(ev, f) == [i \in 1..Len(ev) |-> ev[f[i]]]

Reversed(ev) == [i \in 1..Len(ev) |-> ev[Len(ev) + 1 - i]]

Rotated(ev) == [i \in 1..Len(ev) |-> ev[(i % Len(ev)) + 1]]

\* the reorderings of a table: all of them for a short table, and for a long
\* one its reversal, its rotation and every exchange of a row with the first
Reorderings(ev) ==
  IF Len(ev) <= MaxEvents
    THEN { Permuted(ev, f) : f \in Permutations(1..Len(ev)) }
    ELSE {Reversed(ev), Rotated(ev)}
         \cup { [ev EXCEPT ![1] = ev[k], ![k] = ev[1]] : k \in 2..Len(ev) }

\* C8: the ranked rows computed from the input are the ranked rows computed
\* from any reordering of the input: same rows, scores, ranks, row order.
C8_Determinism ==
  pc = "enrich" => \A ev \in Reorderings(events) : RankedOf(ev) = ranked_df

\* ranked rows with a tie, computed from an input that is not in key order
C8_Witness ==
  /\ pc = "enrich"
  /\ \E i, j \in 1..Len(ranked_df) : Tied(ranked_df, i, j)
  /\ \E k \in 2..Len(events) :
        KeyLess(<<events[k].user_id, events[k].object_id>>,
                <<events[1].user_id, events[1].object_id>>)

UsersOf(df) == { df[i].user_id : i \in 1..Len(df) }

RowsOfUser(df, u) == { i \in 1..Len(df) : df[i].user_id = u }

Min(a, b) == IF a <= b THEN a ELSE b

\* C9: for every user with N rows in the aligned features, the emitted rows
\* of the user number min(N, TOP_K) and their ranks are 1..min(N, TOP_K).
C9_RankContiguity ==
  pc = "enrich" =>
     \A u \in UsersOf(features_df) :
        LET n == Cardinality(RowsOfUser(features_df, u))
            out == RowsOfUser(ranked_df, u)
        IN  /\ Cardinality(out) = Min(n, TOP_K)
            /\ { ranked_df[i].rank : i \in out } = 1..Min(n, TOP_K)

\* one user with more than TOP_K scored rows, some of them tied, and another
\* with fewer
C9_Witness ==
  /\ pc = "enrich"
  /\ \E u, v \in UsersOf(features_df) :
        /\ Cardinality(RowsOfUser(features_df, u)) > TOP_K
        /\ Cardinality(RowsOfUser(ranked_df, u)) = TOP_K
        /\ Cardinality(RowsOfUser(features_df, v)) < TOP_K
        /\ Cardinality(RowsOfUser(ranked_df, v)) = Cardinality(RowsOfUser(features_df, v))
  /\ \E i, j \in 1..Len(features_df) :
        Tied(features_df, i, j) /\ features_df[i].rank > TOP_K

\* the text is a finite number without a fraction
ParsesAsInteger(s) ==
  /\ IsFinite(ToNumeric(s))
  /\ \A i \in 1..Len(ToNumeric(s).frac) : ToNumeric(s).frac[i] = "0"

IntegerEvent(e) == ParsesAsInteger(e.object_id)

\* C10: the run does not stop in the alignment, and its ranked rows are those
\* of the input without the events whose object_id is no integer.
C10_MalformedIdIsolation ==
  /\ ~(pc = "failed" /\ failedAt = "align")
  /\ pc = "enrich" => ranked_df = RankedOf(SelectSeq(events, IntegerEvent))

====
